---------------------------- MODULE Spec2Model ----------------------------
(***************************************************************************)
(* Unit-of-measure conversion (src/lib.rs): the Unit trait (factor, value, *)
(* new, to, to_base, from_base) and the impls the unit! macro generates    *)
(* (From<T>, Add/Sub/Mul/Div against a unit and against a bare number).    *)
(*                                                                         *)
(* Data is modelled for two instantiations of the macro's $datatype:       *)
(*   "f64"  binary floating point, round to nearest even, signed zero,     *)
(*          infinities and NaN, with the significand and exponent range    *)
(*          reduced to MantBits / FracBits / ExpRange;                     *)
(*   "i8"   two's complement integers of IntBits bits: division truncates  *)
(*          toward zero and panics on a zero divisor and on MIN / -1;      *)
(*          +, -, * panic when overflow checks are compiled in and wrap    *)
(*          otherwise.                                                     *)
(* A Data value is a record [k, s, m]:                                     *)
(*   k = "int"   the integer m                                             *)
(*   k = "fin"   the float (-1)^s * m / 2^FracBits                         *)
(*   k = "inf"   the infinity of sign s        k = "nan"   not a number    *)
(*   k = "panic" no value: the thread panicked while computing it          *)
(***************************************************************************)
EXTENDS Integers, Sequences, FiniteSets

\* ------------------------------------------------------------ bounds
\* Significand bits of the modelled float.
MantBits == 5
\* Fraction bits below 1.0: the smallest positive float is 2^-FracBits.
FracBits == 4
\* Binades above the first: the largest float is (2^MantBits - 1) * 2^(ExpRange - FracBits).
ExpRange == 7
\* Conversions chained on one quantity in SpecConv.
MaxSteps == 2

\* ------------------------------------------------------------ Data: i8
IntBits == 8

RECURSIVE Pow2(_)
Pow2(n) == IF n = 0 THEN 1 ELSE 2 * Pow2(n - 1)

IntMin == 0 - Pow2(IntBits - 1)
IntMax == Pow2(IntBits - 1) - 1

Int_(n) == [k |-> "int", s |-> 0, m |-> n]
Panic == [k |-> "panic", s |-> 0, m |-> 0]

Abs(n) == IF n < 0 THEN 0 - n ELSE n

\* Two's complement wrap-around of an out-of-range result.
Wrap(n) == ((n - IntMin) % Pow2(IntBits)) + IntMin

\* Rust's integer division: the quotient truncated toward zero.
TruncDiv(a, b) ==
    IF (a < 0) = (b < 0) THEN Abs(a) \div Abs(b) ELSE 0 - (Abs(a) \div Abs(b))

\* The result of an i8 +, - or * whose exact value is n, in a build with
\* (checks) or without overflow checks.
IntArith(checks, n) ==
    IF n >= IntMin /\ n <= IntMax THEN Int_(n)
    ELSE IF checks THEN Panic ELSE Int_(Wrap(n))

IntDiv(a, b) ==
    IF b = 0 THEN Panic
    ELSE IF a = IntMin /\ b = 0 - 1 THEN Panic
    ELSE Int_(TruncDiv(a, b))

\* ------------------------------------------------------------ Data: f64
Scale == Pow2(FracBits)
MaxMag == (Pow2(MantBits) - 1) * Pow2(ExpRange)

Fin(s, m) == [k |-> "fin", s |-> s, m |-> m]
Inf(s) == [k |-> "inf", s |-> s, m |-> 0]
NaN == [k |-> "nan", s |-> 0, m |-> 0]

Xor(s, t) == IF s = t THEN 0 ELSE 1

\* The spacing of the floats around a magnitude whose integer part is x.
RECURSIVE StepAt(_, _)
StepAt(x, st) == IF x < Pow2(MantBits) * st THEN st ELSE StepAt(x, 2 * st)

\* num / den (in units of 2^-FracBits) rounded to the nearest magnitude with
\* MantBits significant bits, ties to the even significand.
RoundMag(num, den) ==
    LET st == StepAt(num \div den, 1)
        lo == (num \div (den * st)) * st
        r2 == 2 * (num - lo * den)
        h  == st * den
    IN  IF r2 < h THEN lo
        ELSE IF r2 > h THEN lo + st
        ELSE IF (lo \div st) % 2 = 0 THEN lo ELSE lo + st

\* The float of sign s nearest to num / den; beyond the largest float, infinity.
Round(s, num, den) ==
    LET r == RoundMag(num, den) IN IF r > MaxMag THEN Inf(s) ELSE Fin(s, r)

\* A decimal literal num / den of the source, as the compiler rounds it.
FLit(num, den) == Round(0, num * Scale, den)

FNeg(a) == IF a.k = "nan" THEN a ELSE [a EXCEPT !.s = 1 - a.s]

FMul(a, b) ==
    IF a.k = "nan" \/ b.k = "nan" THEN NaN
    ELSE IF a.k = "inf" \/ b.k = "inf"
         THEN IF (a.k = "fin" /\ a.m = 0) \/ (b.k = "fin" /\ b.m = 0)
              THEN NaN ELSE Inf(Xor(a.s, b.s))
    ELSE Round(Xor(a.s, b.s), a.m * b.m, Scale)

FDiv(a, b) ==
    IF a.k = "nan" \/ b.k = "nan" THEN NaN
    ELSE IF a.k = "inf"
         THEN IF b.k = "inf" THEN NaN ELSE Inf(Xor(a.s, b.s))
    ELSE IF b.k = "inf" THEN Fin(Xor(a.s, b.s), 0)
    ELSE IF b.m = 0
         THEN IF a.m = 0 THEN NaN ELSE Inf(Xor(a.s, b.s))
    ELSE Round(Xor(a.s, b.s), a.m * Scale, b.m)

Signed(a) == IF a.s = 1 THEN 0 - a.m ELSE a.m

FAdd(a, b) ==
    IF a.k = "nan" \/ b.k = "nan" THEN NaN
    ELSE IF a.k = "inf"
         THEN IF b.k = "inf" /\ b.s # a.s THEN NaN ELSE a
    ELSE IF b.k = "inf" THEN b
    ELSE LET t == Signed(a) + Signed(b)
         IN  IF t = 0 THEN Fin(IF a.s = 1 /\ b.s = 1 THEN 1 ELSE 0, 0)
             ELSE Round(IF t < 0 THEN 1 ELSE 0, Abs(t), 1)

FSub(a, b) == FAdd(a, FNeg(b))


\* ------------------------------------------------------------ declarations
\* The units the tests declare with unit!, and four further instantiations of
\* the macro: a factor below one, a zero factor, and a family whose Data is i8.
UnitNames ==
    {"Meters", "Centimeters", "Yards", "Decameters",
     "Feet", "Inches", "Nils",
     "Counts", "Dozens", "Voids"}

\* type Base = $basetype
Base(U) ==
    CASE U \in {"Meters", "Centimeters", "Yards", "Decameters"} -> "Meters"
      [] U \in {"Feet", "Inches", "Nils"} -> "Feet"
      [] U \in {"Counts", "Dozens", "Voids"} -> "Counts"

\* type Data = $datatype
Data(U) == IF Base(U) = "Counts" THEN "i8" ELSE "f64"

\* The $factor literal of a unit that is not its own base, as <<num, den>>.
FactorLit(U) ==
    CASE U = "Centimeters" -> <<100, 1>>
      [] U = "Yards" -> <<109361, 100000>>
      [] U = "Decameters" -> <<1, 10>>
      [] U = "Inches" -> <<12, 1>>
      [] U = "Nils" -> <<0, 1>>
      [] U = "Dozens" -> <<12, 1>>
      [] U = "Voids" -> <<0, 1>>

\* The $factor the tests declare for a unit that is its own base.
BaseFactor == 1

\* A literal of the source as a value of the Data kind.
Lit(kind, num, den) == IF kind = "f64" THEN FLit(num, den) ELSE Int_(num \div den)

\* ------------------------------------------------------------ state
\* overflow_checks: whether the build panics on integer overflow (debug) or
\*                  wraps (release).
\* q:      the quantity the caller holds (NoQ before new).
\* steps:  the operations applied to it so far, each with its operands and result.
\* chain:  whether the caller chains conversions (SpecConv) or applies one
\*         operation to the quantity it constructed (Spec).
VARIABLES overflow_checks, q, steps, chain
vars == <<overflow_checks, q, steps, chain>>

NoData == [k |-> "none", s |-> 0, m |-> 0]
NoQ == [unit |-> "none", value |-> NoData]

\* ------------------------------------------------------------ Data operators
DMul(a, b) ==
    IF a.k = "panic" \/ b.k = "panic" THEN Panic
    ELSE IF a.k = "int" THEN IntArith(overflow_checks, a.m * b.m)
    ELSE FMul(a, b)

DDiv(a, b) ==
    IF a.k = "panic" \/ b.k = "panic" THEN Panic
    ELSE IF a.k = "int" THEN IntDiv(a.m, b.m)
    ELSE FDiv(a, b)

DAdd(a, b) ==
    IF a.k = "panic" \/ b.k = "panic" THEN Panic
    ELSE IF a.k = "int" THEN IntArith(overflow_checks, a.m + b.m)
    ELSE FAdd(a, b)

DSub(a, b) ==
    IF a.k = "panic" \/ b.k = "panic" THEN Panic
    ELSE IF a.k = "int" THEN IntArith(overflow_checks, a.m - b.m)
    ELSE FSub(a, b)

\* ------------------------------------------------------------ trait Unit
\* bf is the factor declared for the units that are their own base.
factor(bf, U) ==
    IF Base(U) = U THEN Lit(Data(U), bf, 1)
    ELSE Lit(Data(U), FactorLit(U)[1], FactorLit(U)[2])

value(self) == self.value

new(U, data) == [unit |-> U, value |-> data]

\* The bound without its Base: any unit of the same Data is accepted.
WhereClause_data(Self, T) == Data(T) = Data(Self)

\* T: Unit<Data=Self::Data, Base=Self::Base>
WhereClause(Self, T) == Data(T) = Data(Self) /\ Base(T) = Base(Self)

\* to_base dividing by the factor of the base unit as well.
to_base_rel(bf, self) ==
    new(Base(self.unit),
        DDiv(DDiv(value(self), factor(bf, self.unit)), factor(bf, Base(self.unit))))

\* to_base as the comment above it describes it: multiplying by the factor.
to_base_mul(bf, self) ==
    new(Base(self.unit), DMul(value(self), factor(bf, self.unit)))

to_base(bf, self) ==
    new(Base(self.unit), DDiv(value(self), factor(bf, self.unit)))

\* from_base dividing by the factor instead of multiplying.
from_base_div(bf, Self, T, base) == new(T, DDiv(value(base), factor(bf, Self)))

\* Self::from_base::<T>(base)
from_base(bf, Self, T, base) == new(T, DMul(value(base), factor(bf, Self)))

\* to calling from_base on Self instead of on T: the source's factor is multiplied.
to_self(bf, self, T) == from_base(bf, self.unit, T, to_base(bf, self))

\* self.to::<T>(): T::from_base(self.to_base()), the result type T inferred.
to(bf, self, T) == from_base(bf, T, T, to_base(bf, self))

\* ------------------------------------------------------------ unit! impls
\* from calling from_base on the argument's type instead of on $typename.
from_arg(bf, typename, unit) == from_base(bf, unit.unit, typename, to_base(bf, unit))

\* <$typename as From<T>>::from(unit)
from(bf, typename, unit) == from_base(bf, typename, typename, to_base(bf, unit))

\* add without the conversion of the right operand.
add_raw(bf, self, rhs) == new(self.unit, DAdd(value(self), value(rhs)))

add(bf, self, rhs) ==
    new(self.unit, DAdd(value(self), value(to(bf, rhs, self.unit))))

sub(bf, self, rhs) ==
    new(self.unit, DSub(value(self), value(to(bf, rhs, self.unit))))

mul(bf, self, rhs) ==
    new(self.unit, DMul(value(self), value(to(bf, rhs, self.unit))))

div(bf, self, rhs) ==
    new(self.unit, DDiv(value(self), value(to(bf, rhs, self.unit))))

\* add against a bare number taken as a value of the base unit.
add_data_base(self, rhs) ==
    new(self.unit, DAdd(value(self), DMul(rhs, factor(BaseFactor, self.unit))))

add_data(self, rhs) == new(self.unit, DAdd(value(self), rhs))

sub_data(self, rhs) == new(self.unit, DSub(value(self), rhs))

mul_data(self, rhs) == new(self.unit, DMul(value(self), rhs))

div_data(self, rhs) == new(self.unit, DDiv(value(self), rhs))

\* ------------------------------------------------------------ inputs
FMax == Fin(0, MaxMag)
FMinPos == Fin(0, 1)

\* Raw values a caller passes to new.
RawF ==
    {FLit(0, 1), FNeg(FLit(0, 1)), FLit(1, 1), FLit(2, 1), FLit(3, 1),
     FLit(7, 1), FNeg(FLit(7, 1)), FLit(24, 1), FLit(100, 1), FLit(7, 16),
     FMinPos, FMax, FNeg(FMax), Inf(0), Inf(1), NaN}

RawI == {Int_(n) : n \in {IntMin, IntMin + 1, 0 - 1, 0, 1, 7, 12, 24, 100, IntMax}}

Raw(kind) == IF kind = "f64" THEN RawF ELSE RawI

\* Right-hand operands of the arithmetic operators.
RhsF == {FLit(0, 1), FLit(1, 1), FLit(7, 1), FLit(100, 1)}

RhsI == {Int_(n) : n \in {0 - 1, 0, 7, 100}}

Rhs(kind) == IF kind = "f64" THEN RhsF ELSE RhsI

\* ------------------------------------------------------------ actions
Aborted == q.value.k = "panic"

\* The caller holds a quantity and may apply an operation to it.
Live == q # NoQ /\ ~Aborted /\ Len(steps) < (IF chain THEN MaxSteps ELSE 1)

Record(op, arg, rhs, out) ==
    /\ q' = out
    /\ steps' = Append(steps, [op |-> op, arg |-> arg, rhs |-> rhs, in |-> q, out |-> out])
    /\ UNCHANGED <<overflow_checks, chain>>

Init ==
    /\ overflow_checks \in BOOLEAN
    /\ q = NoQ
    /\ steps = <<>>
    /\ chain = FALSE

InitConv ==
    /\ overflow_checks \in BOOLEAN
    /\ q = NoQ
    /\ steps = <<>>
    /\ chain = TRUE

New(U, v) ==
    /\ q = NoQ
    /\ q' = new(U, v)
    /\ UNCHANGED <<overflow_checks, steps, chain>>

ToBase ==
    /\ Live
    /\ Record("to_base", Base(q.unit), NoData, to_base(BaseFactor, q))

To(T) ==
    /\ Live
    /\ WhereClause(q.unit, T)
    /\ Record("to", T, NoData, to(BaseFactor, q, T))

From(T) ==
    /\ Live
    /\ WhereClause(T, q.unit)
    /\ Record("from", T, NoData, from(BaseFactor, T, q))

Add(R, b) ==
    /\ Live
    /\ WhereClause(q.unit, R)
    /\ Record("add", R, b, add(BaseFactor, q, new(R, b)))

Sub(R, b) ==
    /\ Live
    /\ WhereClause(q.unit, R)
    /\ Record("sub", R, b, sub(BaseFactor, q, new(R, b)))

Mul(R, b) ==
    /\ Live
    /\ WhereClause(q.unit, R)
    /\ Record("mul", R, b, mul(BaseFactor, q, new(R, b)))

Div(R, b) ==
    /\ Live
    /\ WhereClause(q.unit, R)
    /\ Record("div", R, b, div(BaseFactor, q, new(R, b)))

AddData(s) ==
    /\ Live
    /\ s \in Rhs(Data(q.unit))
    /\ Record("add_data", "-", s, add_data(q, s))

SubData(s) ==
    /\ Live
    /\ s \in Rhs(Data(q.unit))
    /\ Record("sub_data", "-", s, sub_data(q, s))

MulData(s) ==
    /\ Live
    /\ s \in Rhs(Data(q.unit))
    /\ Record("mul_data", "-", s, mul_data(q, s))

DivData(s) ==
    /\ Live
    /\ s \in Rhs(Data(q.unit))
    /\ Record("div_data", "-", s, div_data(q, s))

Construct == \E U \in UnitNames : \E v \in Raw(Data(U)) : New(U, v)

Convert ==
    \/ ToBase
    \/ \E T \in UnitNames : To(T)
    \/ \E T \in UnitNames : From(T)

Arith ==
    \/ \E R \in UnitNames : \E b \in Rhs(Data(R)) : Add(R, b)
    \/ \E R \in UnitNames : \E b \in Rhs(Data(R)) : Sub(R, b)
    \/ \E R \in UnitNames : \E b \in Rhs(Data(R)) : Mul(R, b)
    \/ \E R \in UnitNames : \E b \in Rhs(Data(R)) : Div(R, b)
    \/ \E s \in RhsF \cup RhsI : AddData(s)
    \/ \E s \in RhsF \cup RhsI : SubData(s)
    \/ \E s \in RhsF \cup RhsI : MulData(s)
    \/ \E s \in RhsF \cup RhsI : DivData(s)

\* One operation applied to a freshly constructed quantity.
Next == Construct \/ Convert \/ Arith

Spec == Init /\ [][Next]_vars

\* Conversions chained on a freshly constructed quantity.
NextConv == Construct \/ Convert

SpecConv == InitConv /\ [][NextConv]_vars

\* ------------------------------------------------------------ properties
StepIx == 1..Len(steps)

\* A float that keeps MantBits significant bits: neither zero nor subnormal.
Normal(x) == x.k = "fin" /\ x.m >= Pow2(MantBits - 1)

\* x and y are finite floats and |x - y| <= (num / 2^(2 * MantBits)) * |y|.
Within(x, y, num) ==
    /\ x.k = "fin"
    /\ y.k = "fin"
    /\ Abs(Signed(x) - Signed(y)) * Pow2(2 * MantBits) <= num * y.m

\* Two roundings: (1 + u)^2 - 1 = 2u + u^2 with u = 2^-MantBits.
TwoRoundings == 2 * Pow2(MantBits) + 1

\* Four roundings, to first order 4u; 5u bounds the higher-order terms.
FourRoundings == 5 * Pow2(MantBits)

\* Equal up to the representation's precision: the same value, or floats
\* that differ by no more than the given number of roundings.
Close(x, y, num) == x = y \/ Within(x, y, num)

C10_FromAgreesWithTo ==
    \A i \in StepIx :
        steps[i].op = "from" =>
            /\ steps[i].out.unit = steps[i].arg
            /\ steps[i].out = to(BaseFactor, steps[i].in, steps[i].arg)

\* Feet::from(Inches(24)) has happened and is Feet(2).
C10_Witness ==
    /\ Len(steps) >= 1
    /\ steps[1].op = "from"
    /\ steps[1].in = new("Inches", FLit(24, 1))
    /\ steps[1].arg = "Feet"
    /\ steps[1].out = new("Feet", FLit(2, 1))

One(U) == Lit(Data(U), 1, 1)

\* A float that is a zero, an infinity or NaN.
Special(x) == x.k \in {"inf", "nan"} \/ (x.k = "fin" /\ x.m = 0)

\* What (v / f) * f gives for a value v of a unit whose factor is f, as z:
\* v for a factor of one; for f64, v within two roundings when v / f
\* neither underflows nor overflows and z is finite, v itself for a zero, an
\* infinity and NaN, and NaN for a zero factor; for i8, v - (v rem f).
DivThenMul(U, v, f, z) ==
    /\ f = One(U) => z = v
    /\ Data(U) = "f64" /\ f.m # 0 /\ v.k = "fin" /\ Normal(DDiv(v, f)) /\ z.k = "fin"
           => Within(z, v, TwoRoundings)
    /\ Data(U) = "f64" /\ f.m # 0 /\ Special(v) => z = v
    /\ Data(U) = "f64" /\ f.m = 0 => z = NaN
    /\ Data(U) = "i8" /\ f.m # 0 /\ ~(v.m = IntMin /\ f.m = 0 - 1)
           => /\ z.k = "int"
              /\ Abs(v.m - z.m) < Abs(f.m)
              /\ Abs(z.m) <= Abs(v.m)
              /\ (z = v) <=> (v.m % Abs(f.m) = 0)
    /\ Data(U) = "i8" /\ f.m = 0 => z = Panic

IsIdentity(i) == steps[i].op = "to" /\ steps[i].arg = steps[i].in.unit

\* C4 as claimed: converting a quantity to its own unit returns the value
\* unchanged.
C4_IdentityUnchanged ==
    \A i \in StepIx : IsIdentity(i) => steps[i].out.value = steps[i].in.value

\* C4 as amended: converting a quantity to its own unit returns
\* (v / factor) * factor, which is v for a factor of one and otherwise v up
\* to two roundings (f64, no underflow or overflow) or v - (v rem factor) (i8).
C4_IdentityUpToRounding ==
    \A i \in StepIx :
        IsIdentity(i) =>
            /\ steps[i].out.unit = steps[i].in.unit
            /\ DivThenMul(steps[i].in.unit, steps[i].in.value,
                          factor(BaseFactor, steps[i].in.unit), steps[i].out.value)

\* An identity conversion of a finite f64 value that changed the value, by no
\* more than two roundings.
C4_Witness ==
    \E i \in StepIx :
        /\ IsIdentity(i)
        /\ Data(steps[i].in.unit) = "f64"
        /\ steps[i].out.value # steps[i].in.value
        /\ Within(steps[i].out.value, steps[i].in.value, TwoRoundings)

\* steps[i] is U(v).to_base() and steps[i + 1] converts its result back to U.
IsRoundTrip(i) ==
    /\ i + 1 <= Len(steps)
    /\ steps[i].op = "to_base"
    /\ steps[i + 1].op = "to"
    /\ steps[i + 1].arg = steps[i].in.unit

\* A float that is zero or subnormal: a nonzero value that rounds to one has
\* underflowed.
Tiny(x) == x.k = "fin" /\ x.m < Pow2(MantBits - 1)

\* C2 as claimed: U(v).to_base().to::<U>() has the value v up to the
\* representation's precision, for every unit and every raw value. The
\* tolerance is read generously: two roundings, and a value whose base value
\* underflows is not held against the claim.
C2_RoundTripClose ==
    \A i \in StepIx :
        IsRoundTrip(i) /\ ~Tiny(steps[i].out.value) =>
            Close(steps[i + 1].out.value, steps[i].in.value, TwoRoundings)

\* C2 as amended: with the base unit's factor one, the round trip gives
\* (v / factor) * factor: v within two roundings for f64 when the base value
\* neither underflows nor overflows and the result is finite, v - (v rem
\* factor) for i8, NaN for an f64 unit of factor zero.
C2_RoundTripUpToRounding ==
    \A i \in StepIx :
        IsRoundTrip(i) =>
            /\ steps[i + 1].out.unit = steps[i].in.unit
            /\ steps[i].out.value =
                   DDiv(steps[i].in.value, factor(BaseFactor, steps[i].in.unit))
            /\ DivThenMul(steps[i].in.unit, steps[i].in.value,
                          factor(BaseFactor, steps[i].in.unit), steps[i + 1].out.value)

\* A round trip of a finite f64 value through a base value that is another
\* number, which came back changed by no more than two roundings.
C2_Witness ==
    \E i \in StepIx :
        /\ IsRoundTrip(i)
        /\ Data(steps[i].in.unit) = "f64"
        /\ Normal(steps[i].out.value)
        /\ steps[i].out.value # steps[i].in.value
        /\ steps[i + 1].out.value # steps[i].in.value
        /\ Within(steps[i + 1].out.value, steps[i].in.value, TwoRoundings)

\* steps[i] converts U(v) to V and steps[i + 1] converts the result to W.
IsTwoHops(i) ==
    /\ i + 1 <= Len(steps)
    /\ steps[i].op = "to"
    /\ steps[i + 1].op = "to"

Direct(i) == to(BaseFactor, steps[i].in, steps[i + 1].arg)

\* C3 as claimed: U(v) converted to V and then to W has the value of U(v)
\* converted to W, within the representation's tolerance, for all units and
\* raw values. The tolerance is read generously: four roundings, and a
\* conversion one of whose values underflows is not held against the claim.
C3_CompositionClose ==
    \A i \in StepIx :
        /\ IsTwoHops(i)
        /\ ~Tiny(steps[i].out.value)
        /\ ~Tiny(DDiv(steps[i].out.value, factor(BaseFactor, steps[i].arg)))
        /\ ~Tiny(value(Direct(i)))
        => Close(steps[i + 1].out.value, value(Direct(i)), FourRoundings)

\* No step of U -> V -> W or of U -> W underflowed or overflowed: the value in
\* V, the base value recovered from it and the direct result are normal
\* floats and the two-hop result is finite.
NoRangeLoss(i) ==
    /\ Normal(steps[i].out.value)
    /\ Normal(DDiv(steps[i].out.value, factor(BaseFactor, steps[i].arg)))
    /\ Normal(value(Direct(i)))
    /\ steps[i + 1].out.value.k = "fin"

\* The i8 product of the base value of steps[i].in and V's factor is in range.
InRange(i) ==
    LET b == value(to_base(BaseFactor, steps[i].in))
        n == b.m * factor(BaseFactor, steps[i].arg).m
    IN  b.k = "int" /\ n >= IntMin /\ n <= IntMax

\* C3 as amended: U -> V -> W gives the unit W; for f64 its value is the
\* direct conversion's within four roundings when V's factor is not zero and no
\* step underflows or overflows; for i8 it is the direct conversion's exactly
\* when V's factor is not zero and the value in V does not overflow.
C3_CompositionUpToRounding ==
    \A i \in StepIx :
        IsTwoHops(i) =>
            /\ steps[i + 1].out.unit = Direct(i).unit
            /\ Data(steps[i].arg) = "f64" /\ factor(BaseFactor, steps[i].arg).m # 0
                   /\ NoRangeLoss(i)
                   => Within(steps[i + 1].out.value, value(Direct(i)), FourRoundings)
            /\ Data(steps[i].arg) = "i8" /\ factor(BaseFactor, steps[i].arg).m # 0
                   /\ InRange(i)
                   => steps[i + 1].out.value = value(Direct(i))

\* A conversion through three different f64 units, none of whose steps lost
\* range, and whose result differs from the direct conversion's.
C3_Witness ==
    \E i \in StepIx :
        /\ IsTwoHops(i)
        /\ Cardinality({steps[i].in.unit, steps[i].arg, steps[i + 1].arg}) = 3
        /\ Data(steps[i].arg) = "f64"
        /\ NoRangeLoss(i)
        /\ steps[i + 1].out.value # value(Direct(i))

MixedOps == {"add", "sub", "mul", "div"}
ScalarOps == {"add_data", "sub_data", "mul_data", "div_data"}

\* a op b on raw Data values.
Raw2(op, a, b) ==
    CASE op \in {"add", "add_data"} -> DAdd(a, b)
      [] op \in {"sub", "sub_data"} -> DSub(a, b)
      [] op \in {"mul", "mul_data"} -> DMul(a, b)
      [] op \in {"div", "div_data"} -> DDiv(a, b)

\* C5: L(a) op R(b) is a quantity of the left unit L whose value is a op c,
\* c = (b / R.factor()) * L.factor() the right operand converted into L; the
\* left operand is not converted.
C5_MixedArithmeticConvertsRight ==
    \A i \in StepIx :
        steps[i].op \in MixedOps =>
            /\ steps[i].out.unit = steps[i].in.unit
            /\ steps[i].out.value =
                   Raw2(steps[i].op, steps[i].in.value,
                        DMul(DDiv(steps[i].rhs, factor(BaseFactor, steps[i].arg)),
                             factor(BaseFactor, steps[i].in.unit)))

\* Meters(1) + Centimeters(100) has happened and is Meters(2).
C5_Witness ==
    /\ Len(steps) = 1
    /\ steps[1].op = "add"
    /\ steps[1].in = new("Meters", FLit(1, 1))
    /\ steps[1].arg = "Centimeters"
    /\ steps[1].rhs = FLit(100, 1)
    /\ steps[1].out = new("Meters", FLit(2, 1))

\* C6: U(a) op s, s a bare number, is a quantity of unit U whose value is
\* a op s; no factor is applied to either operand.
C6_ScalarArithmeticIsRaw ==
    \A i \in StepIx :
        steps[i].op \in ScalarOps =>
            /\ steps[i].out.unit = steps[i].in.unit
            /\ steps[i].out.value = Raw2(steps[i].op, steps[i].in.value, steps[i].rhs)

\* Inches(24) + 7 has happened and is Inches(31), Inches a unit of factor 12.
C6_Witness ==
    /\ Len(steps) = 1
    /\ steps[1].op = "add_data"
    /\ steps[1].in = new("Inches", FLit(24, 1))
    /\ steps[1].rhs = FLit(7, 1)
    /\ steps[1].out = new("Inches", FLit(31, 1))

\* X and Y declare the same base unit and the same Data.
Interconvertible(X, Y) == Base(X) = Base(Y) /\ Data(X) = Data(Y)

\* C7: a conversion or a mixed-unit operation happens only between units
\* that declare the same base unit and the same Data: no step between units
\* of different families ever occurs, no quantity of another family is ever
\* produced, and for the quantity the caller holds the bound of to, From and
\* the mixed operators accepts exactly the interconvertible units.
C7_OnlyInterconvertible ==
    /\ \A i \in StepIx :
           steps[i].op \in {"to", "from", "to_base"} \cup MixedOps =>
               /\ Interconvertible(steps[i].in.unit, steps[i].arg)
               /\ Interconvertible(steps[i].out.unit, steps[i].in.unit)
    /\ q # NoQ =>
           \A Y \in UnitNames :
               /\ WhereClause(q.unit, Y) <=> Interconvertible(q.unit, Y)
               /\ WhereClause(Y, q.unit) <=> Interconvertible(q.unit, Y)

\* Feet(3).to::<Inches>() has happened and is Inches(36); the units of the
\* other families, Yards of the commented-out test among them, are not
\* accepted for the quantity.
C7_Witness ==
    /\ Len(steps) = 1
    /\ steps[1].op = "to"
    /\ steps[1].in = new("Feet", FLit(3, 1))
    /\ steps[1].out = new("Inches", FLit(36, 1))
    /\ ~WhereClause("Feet", "Yards")
    /\ ~WhereClause("Feet", "Counts")

\* The integer divisions steps[i] performs, as <<dividend, divisor>>: the
\* division by the factor of the unit that is converted and, for a division of
\* quantities, the division by the converted right operand.
Divisions(i) ==
    LET st == steps[i]
        c == value(to(BaseFactor, new(st.arg, st.rhs), st.in.unit))
    IN  CASE st.op \in {"to_base", "to", "from"} ->
                 {<<st.in.value.m, factor(BaseFactor, st.in.unit).m>>}
          [] st.op \in MixedOps ->
                 {<<st.rhs.m, factor(BaseFactor, st.arg).m>>}
                     \cup IF st.op = "div" /\ c.k = "int"
                          THEN {<<st.in.value.m, c.m>>} ELSE {}
          [] st.op = "div_data" -> {<<st.in.value.m, st.rhs.m>>}
          [] OTHER -> {}

\* steps[i] divides by zero, or divides the least integer by -1.
BadDiv(i) ==
    \E p \in Divisions(i) : p[2] = 0 \/ (p[1] = IntMin /\ p[2] = 0 - 1)

\* The exact result of U(a) op s for +, - and *.
Exact(i) ==
    CASE steps[i].op = "add_data" -> steps[i].in.value.m + steps[i].rhs.m
      [] steps[i].op = "sub_data" -> steps[i].in.value.m - steps[i].rhs.m
      [] steps[i].op = "mul_data" -> steps[i].in.value.m * steps[i].rhs.m

\* C8 as claimed: no operation ever aborts, for every Data kind, a zero
\* factor and zero divisors included.
C8_NeverAborts == ~Aborted

\* C8 as amended: new never aborts and no operation on f64 quantities does
\* (a zero divisor yields an infinity or NaN); an operation on integer
\* quantities aborts whenever it divides by zero (a zero factor of the unit
\* converted, a zero scalar divisor, a right-hand quantity whose converted
\* value is zero) or divides the least integer by -1, and otherwise only on an
\* overflow of +, - or * in a build with overflow checks.
C8_AbortsOnlyOnIntegerFaults ==
    /\ steps = <<>> => ~Aborted
    /\ \A i \in StepIx :
           /\ Data(steps[i].in.unit) = "f64" =>
                  steps[i].out.value.k \in {"fin", "inf", "nan"}
           /\ Data(steps[i].in.unit) = "i8" =>
                  /\ steps[i].out.value.k \in {"int", "panic"}
                  /\ BadDiv(i) => steps[i].out.value = Panic
                  /\ steps[i].out.value = Panic => BadDiv(i) \/ overflow_checks
                  /\ steps[i].op \in {"add_data", "sub_data", "mul_data"} =>
                         (steps[i].out.value = Panic <=>
                              overflow_checks /\ (Exact(i) < IntMin \/ Exact(i) > IntMax))

\* Dozens(7) / Counts(0) has aborted: the converted right-hand value is zero.
C8_Witness ==
    /\ Len(steps) = 1
    /\ steps[1].op = "div"
    /\ steps[1].in = new("Dozens", Int_(7))
    /\ steps[1].arg = "Counts"
    /\ steps[1].rhs = Int_(0)
    /\ Aborted

\* Other nonzero factors a declaration may give the units that are their own base.
AltBaseFactors == {2, 3}

\* The operation of step st on the operands of st, under a declaration that
\* gives the base units the factor bf.
Apply(bf, st) ==
    CASE st.op = "to_base" -> to_base(bf, st.in)
      [] st.op = "to" -> to(bf, st.in, st.arg)
      [] st.op = "from" -> from(bf, st.arg, st.in)
      [] st.op = "add" -> add(bf, st.in, new(st.arg, st.rhs))
      [] st.op = "sub" -> sub(bf, st.in, new(st.arg, st.rhs))
      [] st.op = "mul" -> mul(bf, st.in, new(st.arg, st.rhs))
      [] st.op = "div" -> div(bf, st.in, new(st.arg, st.rhs))
      [] st.op = "add_data" -> add_data(st.in, st.rhs)
      [] st.op = "sub_data" -> sub_data(st.in, st.rhs)
      [] st.op = "mul_data" -> mul_data(st.in, st.rhs)
      [] st.op = "div_data" -> div_data(st.in, st.rhs)

IsBase(U) == Base(U) = U

\* The base unit is the source or the target of a conversion step st makes.
ThroughBase(st) ==
    CASE st.op = "to_base" -> IsBase(st.in.unit)
      [] st.op \in {"to", "from"} \cup MixedOps -> IsBase(st.in.unit) \/ IsBase(st.arg)
      [] OTHER -> FALSE

\* C9 as claimed: under a declaration that differs only in the nonzero
\* factor of the base unit, every operation gives the same result. Results
\* that differ by roundings only, or that underflow, are not held against
\* the claim.
C9_BaseFactorHasNoEffect ==
    \A i \in StepIx : \A bf \in AltBaseFactors :
        /\ Apply(bf, steps[i]).unit = steps[i].out.unit
        /\ Tiny(steps[i].out.value)
               \/ Tiny(value(Apply(bf, steps[i])))
               \/ Close(value(Apply(bf, steps[i])), steps[i].out.value, FourRoundings)

\* C9 as amended: the base unit's factor has no effect on the operations
\* that do not convert from or to the base unit (to_base, to, From and mixed
\* arithmetic among derived units, arithmetic against a bare number); where
\* the base unit B is the target it is multiplied in, U(v).to::<B>() being
\* (v / U.factor()) * B.factor(), and where B is the source it is divided by.
C9_BaseFactorOnlyThroughBase ==
    \A i \in StepIx : \A bf \in AltBaseFactors :
        LET st == steps[i]
            fb == Lit(Data(st.in.unit), bf, 1)
            f(U) == factor(BaseFactor, U)
        IN  /\ ~ThroughBase(st) => Apply(bf, st) = st.out
            /\ st.op = "to" /\ IsBase(st.arg) /\ ~IsBase(st.in.unit) =>
                   value(Apply(bf, st)) = DMul(DDiv(st.in.value, f(st.in.unit)), fb)
            /\ st.op = "to" /\ IsBase(st.in.unit) /\ ~IsBase(st.arg) =>
                   value(Apply(bf, st)) = DMul(DDiv(st.in.value, fb), f(st.arg))
            /\ st.op = "to_base" /\ IsBase(st.in.unit) =>
                   value(Apply(bf, st)) = DDiv(st.in.value, fb)

\* Centimeters(100).to::<Yards>(), between two derived units, has happened
\* with a finite result.
C9_Witness ==
    /\ Len(steps) = 1
    /\ steps[1].op = "to"
    /\ steps[1].in = new("Centimeters", FLit(100, 1))
    /\ steps[1].arg = "Yards"
    /\ Normal(steps[1].out.value)
    /\ ~ThroughBase(steps[1])

=============================================================================
